---- MODULE Spec2Model ----
(***************************************************************************)
(* list_sort / array_sort / list_reverse_sort of                           *)
(* src/src/function/scalar/list/list_sort.cpp as a state machine.          *)
(*                                                                         *)
(* Spec      one invocation of ListSortFunction over one list column,      *)
(*           one step per iteration of its loops.                          *)
(* SpecBind  one call of ListNormalSortBind or ListReverseSortBind.        *)
(* SpecConc  invocations of ListSortFunction that share one                *)
(*           ListSortBindData, one step per use of its global_sort_state.  *)
(* SpecWide  the walk of ListSortFunction over a column of some 65536      *)
(*           one-element lists, as far as lists_indices goes.              *)
(*                                                                         *)
(* Conventions.  C++ arrays are 0-based; a TLA+ sequence holding such an   *)
(* array keeps element k of the array at position k + 1.  An element value *)
(* is a number of ElementValues; 0 stands for SQL NULL.                    *)
(***************************************************************************)
EXTENDS Integers, Sequences, FiniteSets, TLC

(***************************************************************************)
(* Bounds of the model.                                                    *)
(***************************************************************************)
\* rows of the column (args.size())
MaxRows == 2
\* physical rows that the selection vector leaves out of the column
MaxFiltered == 1
\* elements of the child vector (ListVector::GetListSize)
MaxChild == 3
\* capacity of one vector; the engine's vector size is far larger, scaled
\* down here so that a column fills more than one buffer
STANDARD_VECTOR_SIZE == 2

\* uint16_t: the values a USMALLINT entry of lists_indices can hold
USMALLINT_RANGE == 65536

\* element values; 0 is NULL
ElementValues == 0..2

IsNull(v) == v = 0

OrderTypes == {"ASCENDING", "DESCENDING"}

NullOrders == {"NULLS_FIRST", "NULLS_LAST"}

NoResult == [none |-> TRUE]

VARIABLES
    pc,                    \* position in ListSortFunction
    info,                  \* ListSortBindData: order_type, null_order, orders
    lists,                 \* args.data[0] after Orrify: sel, entries, validity
    child_vector,          \* ListVector::GetEntry(lists), the FlatChildStorage
    input_child,           \* history: the child storage at the call
    i,                     \* row of the outer loop
    child_idx,             \* element of the inner loop
    sel,                   \* SelectionVector sel(STANDARD_VECTOR_SIZE)
    lists_indices,         \* lists_indices_data
    payload_vector,        \* payload_vector_data
    offset_lists_indices,
    incr_payload_count,
    data_to_sort,
    local_sort_state,      \* the chunks sunk, in the order of sinking
    sorted_blocks,         \* global_sort_state.sorted_blocks[0] after the merge
    scan_pos,              \* rows the PayloadScanner has produced
    sel_sorted,
    result_validity,       \* rows of result marked invalid by the loop
    result,                \* the result vector once it references lists
    emitted,               \* history: every triple written to the buffers
    steps,                 \* history: how often sort, scan and gather ran
    bind,                  \* SpecBind: the call of the bind function
    heap,                  \* SpecConc: the GlobalSortStates, by address
    global_sort_state,     \* SpecConc: info.global_sort_state, an address or 0
    invocations,           \* SpecConc: each invocation's position and locals
    wide                   \* SpecWide: the column and its lists_indices

sortVars == <<pc, info, lists, child_vector, input_child, i, child_idx, sel, lists_indices,
              payload_vector, offset_lists_indices, incr_payload_count,
              data_to_sort, local_sort_state, sorted_blocks, scan_pos,
              sel_sorted, result_validity, result, emitted, steps>>

bindVars == <<bind>>

concVars == <<heap, global_sort_state, invocations>>

wideVars == <<wide>>

vars == <<sortVars, bindVars, concVars, wideVars>>

(***************************************************************************)
(* ListSortBindData                                                        *)
(***************************************************************************)
\* the BoundOrderByNodes: the list's index ascending, then the element
Orders(order_type, null_order) ==
    << [type |-> "ASCENDING", null_order |-> "ORDER_DEFAULT", column |-> 0],
       [type |-> order_type, null_order |-> null_order, column |-> 1] >>

ListSortBindData(order_type, null_order) ==
    [order_type |-> order_type, null_order |-> null_order,
     orders |-> Orders(order_type, null_order)]

(***************************************************************************)
(* The sort engine (duckdb/common/sort/sort.hpp, not among the sources):   *)
(* it orders the rows sunk by the BoundOrderByNodes it was created with.   *)
(***************************************************************************)
\* one key column compared under one BoundOrderByNode; the first key column
\* is never NULL
KeyLess(node, x, y) ==
    IF node.column = 0
    THEN IF node.type = "ASCENDING" THEN x < y ELSE y < x
    ELSE IF IsNull(x) /\ IsNull(y) THEN FALSE
         ELSE IF IsNull(x) THEN node.null_order = "NULLS_FIRST"
         ELSE IF IsNull(y) THEN node.null_order = "NULLS_LAST"
         ELSE IF node.type = "ASCENDING" THEN x < y ELSE y < x

KeyOf(row, column) == IF column = 0 THEN row.group ELSE row.value

RowLess(orders, a, b) ==
    \/ KeyLess(orders[1], KeyOf(a, 0), KeyOf(b, 0))
    \/ /\ KeyOf(a, 0) = KeyOf(b, 0)
       /\ KeyLess(orders[2], KeyOf(a, 1), KeyOf(b, 1))

\* every order of the rows of S that the comparator allows: rows that compare
\* equal come out in any order
RECURSIVE SortedSeqs(_, _)
SortedSeqs(orders, S) ==
    IF S = {} THEN { <<>> }
    ELSE UNION { { <<m>> \o t : t \in SortedSeqs(orders, S \ {m}) } :
                 m \in { r \in S : \A q \in S : ~RowLess(orders, q, r) } }

RECURSIVE Flatten(_)
Flatten(chunks) ==
    IF chunks = <<>> THEN <<>> ELSE Head(chunks) \o Flatten(Tail(chunks))

Range(s) == { s[k] : k \in DOMAIN s }

\* PayloadScanner::Scan: the next rows of the sorted block, one vector at most
ScanChunk(block, pos) ==
    SubSeq(block, pos + 1,
           IF Len(block) - pos > STANDARD_VECTOR_SIZE
           THEN pos + STANDARD_VECTOR_SIZE ELSE Len(block))

(***************************************************************************)
(* The input columns.  The list vector is read through Orrify: row i of    *)
(* the column is the physical row lists_data.sel[i], whose list_entry_t    *)
(* is a window (offset, length) of the child vector.  The physical rows    *)
(* are laid out back to back in the child vector, as appending them does.  *)
(* A flat vector selects every physical row; the vector a filter leaves    *)
(* behind is a dictionary vector that selects only the rows kept, over     *)
(* the same child vector, which still holds the elements of the others.    *)
(***************************************************************************)
RECURSIVE SumLengths(_)
SumLengths(rows) ==
    IF rows = <<>> THEN 0 ELSE Head(rows).length + SumLengths(Tail(rows))

\* a physical row of the list vector: NULL (no elements) or a list of some
\* length, kept by the selection vector or left out of it; a row left out
\* matters to the column only by the elements it holds in the child vector
RowKinds == { k \in [valid : BOOLEAN, length : 0..MaxChild, kept : BOOLEAN] :
              /\ ~k.valid => k.length = 0
              /\ ~k.kept => k.length > 0 }

KeptRows(shape) == { r \in DOMAIN shape : shape[r].kept }

\* the physical rows of a column: MaxRows rows at most in the column, and
\* MaxFiltered more that a filter left out of it
RowShapes ==
    { s \in UNION { [1..n -> RowKinds] : n \in 0..(MaxRows + MaxFiltered) } :
        /\ Cardinality(KeptRows(s)) <= MaxRows
        /\ Cardinality(DOMAIN s \ KeptRows(s)) <= MaxFiltered
        /\ SumLengths(s) <= MaxChild }

\* the list entries of rows appended one after the other to the child vector
EntriesOf(shape) ==
    [r \in 1..Len(shape) |->
        [offset |-> SumLengths(SubSeq(shape, 1, r - 1)),
         length |-> shape[r].length]]

RECURSIVE SortedSeqOfSet(_)
SortedSeqOfSet(S) ==
    IF S = {} THEN <<>>
    ELSE LET m == CHOOSE x \in S : \A y \in S : x <= y
         IN <<m>> \o SortedSeqOfSet(S \ {m})

\* the selection vector of the list vector: the physical rows kept, in their
\* order (all of them for a flat vector)
SelectionOf(shape) == SortedSeqOfSet({ r - 1 : r \in KeptRows(shape) })

count == Len(lists.sel)

lists_index(row) == lists.sel[row + 1]

list_entry(row) == lists.entries[lists_index(row) + 1]

RowIsValid(row) == lists.validity[lists_index(row) + 1]

\* the elements a list vector shows at row `row` over the child storage
ListAt(vec, storage, row) ==
    LET e == vec.entries[vec.sel[row + 1] + 1]
    IN [k \in 1..e.length |-> storage[e.offset + k]]

(***************************************************************************)
(* ListSortFunction                                                        *)
(***************************************************************************)
\* the value a uint16_t entry of lists_indices holds after the store of row
GroupIndex(row) == row % USMALLINT_RANGE

\* the payload recorded for the element at source_idx when n payloads were
\* recorded before it
PayloadOf(source_idx, n) == n

\* a faulty variant: the buffers are sunk one entry early
BufferFull_OneEarly == offset_lists_indices >= STANDARD_VECTOR_SIZE - 1

BufferFull == offset_lists_indices = STANDARD_VECTOR_SIZE

\* a faulty variant: the sink after the loop is not guarded
RemainderToSink_Always == TRUE

RemainderToSink == offset_lists_indices # 0

\* SinkDataChunk: the first n entries of the three buffers as key and
\* payload rows
DataChunk(n) ==
    [k \in 1..n |->
        [group |-> lists_indices[k - 1],
         value |-> child_vector[sel[k - 1] + 1],
         payload |-> payload_vector[k - 1]]]

\* the parts of the state a specification does not use
NoBind == [pc |-> "none"]

IdleBind == bind = NoBind

IdleConc == heap = <<>> /\ global_sort_state = 0 /\ invocations = <<>>

IdleWide == wide = [pc |-> "none"]

IdleSort ==
    /\ pc = "none"
    /\ info = NoBind /\ lists = NoBind /\ result = NoResult
    /\ child_vector = <<>> /\ input_child = <<>>
    /\ i = 0 /\ child_idx = 0
    /\ sel = <<>> /\ lists_indices = <<>> /\ payload_vector = <<>>
    /\ offset_lists_indices = 0 /\ incr_payload_count = 0
    /\ data_to_sort = FALSE
    /\ local_sort_state = <<>> /\ sorted_blocks = <<>>
    /\ scan_pos = 0 /\ sel_sorted = <<>>
    /\ result_validity = {} /\ emitted = <<>>
    /\ steps = [sort |-> 0, scan |-> 0, gather |-> 0]

Init ==
    /\ IdleBind /\ IdleConc /\ IdleWide
    /\ \E shape \in RowShapes :
           \E c \in [1..SumLengths(shape) -> ElementValues] :
             /\ lists = [sel |-> SelectionOf(shape), entries |-> EntriesOf(shape),
                         validity |-> [r \in 1..Len(shape) |-> shape[r].valid]]
             /\ child_vector = c
             /\ input_child = c
    /\ \E o \in OrderTypes : \E n \in NullOrders :
         info = ListSortBindData(o, n)
    /\ pc = "loop"
    /\ i = 0
    /\ child_idx = 0
    /\ sel = [k \in 0..(STANDARD_VECTOR_SIZE - 1) |-> 0]
    /\ lists_indices = [k \in 0..(STANDARD_VECTOR_SIZE - 1) |-> 0]
    /\ payload_vector = [k \in 0..(STANDARD_VECTOR_SIZE - 1) |-> 0]
    /\ offset_lists_indices = 0
    /\ incr_payload_count = 0
    /\ data_to_sort = FALSE
    /\ local_sort_state = <<>>
    /\ sorted_blocks = <<>>
    /\ scan_pos = 0
    /\ sel_sorted = <<>>
    /\ result_validity = {}
    /\ result = NoResult
    /\ emitted = <<>>
    /\ steps = [sort |-> 0, scan |-> 0, gather |-> 0]

\* a NULL row: the result row is marked invalid and nothing is emitted
SkipNullRow ==
    /\ pc = "loop" /\ i < count
    /\ ~RowIsValid(i)
    /\ result_validity' = result_validity \cup {i}
    /\ i' = i + 1
    /\ UNCHANGED <<pc, info, lists, input_child, child_vector, child_idx, sel, lists_indices,
                   payload_vector, offset_lists_indices, incr_payload_count,
                   data_to_sort, local_sort_state, sorted_blocks, scan_pos,
                   sel_sorted, result, emitted, steps>>
    /\ UNCHANGED <<bindVars, concVars, wideVars>>

\* an empty list: nothing is emitted
SkipEmptyRow ==
    /\ pc = "loop" /\ i < count
    /\ RowIsValid(i) /\ list_entry(i).length = 0
    /\ i' = i + 1
    /\ UNCHANGED <<pc, info, lists, input_child, child_vector, child_idx, sel, lists_indices,
                   payload_vector, offset_lists_indices, incr_payload_count,
                   data_to_sort, local_sort_state, sorted_blocks, scan_pos,
                   sel_sorted, result_validity, result, emitted, steps>>
    /\ UNCHANGED <<bindVars, concVars, wideVars>>

\* one iteration of the inner loop: sink the buffers when they are full, then
\* record element child_idx of row i
EmitElement ==
    /\ pc = "loop" /\ i < count
    /\ RowIsValid(i) /\ child_idx < list_entry(i).length
    /\ LET flush == BufferFull
           at == IF flush THEN 0 ELSE offset_lists_indices
           source_idx == list_entry(i).offset + child_idx
       IN /\ local_sort_state' =
                IF flush
                THEN Append(local_sort_state, DataChunk(offset_lists_indices))
                ELSE local_sort_state
          /\ data_to_sort' = (flush \/ data_to_sort)
          /\ sel' = [sel EXCEPT ![at] = source_idx]
          /\ lists_indices' = [lists_indices EXCEPT ![at] = GroupIndex(i)]
          /\ payload_vector' =
                [payload_vector EXCEPT
                    ![at] = PayloadOf(source_idx, incr_payload_count)]
          /\ offset_lists_indices' = at + 1
          /\ incr_payload_count' = incr_payload_count + 1
          /\ emitted' = Append(emitted,
                [row |-> i, child_idx |-> child_idx, source_idx |-> source_idx,
                 group |-> GroupIndex(i),
                 payload |-> PayloadOf(source_idx, incr_payload_count)])
    /\ IF child_idx + 1 < list_entry(i).length
       THEN child_idx' = child_idx + 1 /\ i' = i
       ELSE child_idx' = 0 /\ i' = i + 1
    /\ UNCHANGED <<pc, info, lists, input_child, child_vector, sorted_blocks, scan_pos,
                   sel_sorted, result_validity, result, steps>>
    /\ UNCHANGED <<bindVars, concVars, wideVars>>

\* after the last row: sink what is left in the buffers
EndOfColumn ==
    /\ pc = "loop" /\ i = count
    /\ LET sink == RemainderToSink
       IN /\ local_sort_state' =
                IF sink
                THEN Append(local_sort_state, DataChunk(offset_lists_indices))
                ELSE local_sort_state
          /\ data_to_sort' = (sink \/ data_to_sort)
    /\ pc' = IF data_to_sort' THEN "sort" ELSE "reference"
    /\ UNCHANGED <<info, lists, input_child, child_vector, i, child_idx, sel, lists_indices,
                   payload_vector, offset_lists_indices, incr_payload_count,
                   sorted_blocks, scan_pos, sel_sorted, result_validity, result,
                   emitted, steps>>
    /\ UNCHANGED <<bindVars, concVars, wideVars>>

\* AddLocalState and PrepareMergePhase: the rows sunk, in sorted order
SortAndMerge ==
    /\ pc = "sort"
    /\ sorted_blocks' \in SortedSeqs(info.orders, Range(Flatten(local_sort_state)))
    /\ steps' = [steps EXCEPT !.sort = @ + 1]
    /\ pc' = "scan"
    /\ UNCHANGED <<info, lists, input_child, child_vector, i, child_idx, sel, lists_indices,
                   payload_vector, offset_lists_indices, incr_payload_count,
                   data_to_sort, local_sort_state, scan_pos, sel_sorted,
                   result_validity, result, emitted>>
    /\ UNCHANGED <<bindVars, concVars, wideVars>>

\* one iteration of the scan loop: the payloads of the next chunk are
\* appended to sel_sorted; an empty chunk ends the loop
ScanSorted ==
    /\ pc = "scan"
    /\ LET result_chunk == ScanChunk(sorted_blocks, scan_pos)
       IN /\ scan_pos' = scan_pos + Len(result_chunk)
          /\ sel_sorted' =
                sel_sorted \o [k \in 1..Len(result_chunk) |-> result_chunk[k].payload]
          /\ pc' = IF Len(result_chunk) = 0 THEN "gather" ELSE "scan"
    /\ steps' = [steps EXCEPT !.scan = @ + 1]
    /\ UNCHANGED <<info, lists, input_child, child_vector, i, child_idx, sel, lists_indices,
                   payload_vector, offset_lists_indices, incr_payload_count,
                   data_to_sort, local_sort_state, sorted_blocks,
                   result_validity, result, emitted>>
    /\ UNCHANGED <<bindVars, concVars, wideVars>>

\* child_vector.Slice(sel_sorted, n) and Normalify(n): the child vector
\* becomes a flat vector of the n entries the gather writes, entry k the old
\* entry sel_sorted[k]; it holds nothing defined from n on
GatherChild ==
    /\ pc = "gather"
    /\ child_vector' =
          [k \in 1..Len(sel_sorted) |-> child_vector[sel_sorted[k] + 1]]
    /\ steps' = [steps EXCEPT !.gather = @ + 1]
    /\ pc' = "reference"
    /\ UNCHANGED <<info, lists, input_child, i, child_idx, sel, lists_indices,
                   payload_vector, offset_lists_indices, incr_payload_count,
                   data_to_sort, local_sort_state, sorted_blocks, scan_pos,
                   sel_sorted, result_validity, result, emitted>>
    /\ UNCHANGED <<bindVars, concVars, wideVars>>

\* result.Reference(lists): the result is the input vector over the storage
\* as it now is
ReferenceLists ==
    /\ pc = "reference"
    /\ result' = [sel |-> lists.sel, entries |-> lists.entries,
                  validity |-> lists.validity, child |-> child_vector]
    /\ pc' = "done"
    /\ UNCHANGED <<info, lists, input_child, child_vector, i, child_idx, sel, lists_indices,
                   payload_vector, offset_lists_indices, incr_payload_count,
                   data_to_sort, local_sort_state, sorted_blocks, scan_pos,
                   sel_sorted, result_validity, emitted, steps>>
    /\ UNCHANGED <<bindVars, concVars, wideVars>>

Next ==
    \/ SkipNullRow
    \/ SkipEmptyRow
    \/ EmitElement
    \/ EndOfColumn
    \/ SortAndMerge
    \/ ScanSorted
    \/ GatherChild
    \/ ReferenceLists

Spec == Init /\ [][Next]_vars

(***************************************************************************)
(* Properties of one invocation                                            *)
(***************************************************************************)
Rows == 0..(count - 1)

InputList(row) == ListAt(lists, input_child, row)

OutputList(row) == ListAt(result, result.child, row)

\* the window of the row lies in what the child storage of the result holds
WindowWritten(row) ==
    list_entry(row).offset + list_entry(row).length <= Len(result.child)
       \/ list_entry(row).length = 0

Occurrences(s, v) == Cardinality({ k \in DOMAIN s : s[k] = v })

IsPermutation(s, t) ==
    /\ Len(s) = Len(t)
    /\ \A v \in ElementValues : Occurrences(s, v) = Occurrences(t, v)

\* the non-null values of s are in the order the bind data asks for
IsOrdered(s) ==
    \A a, b \in DOMAIN s :
        (a < b /\ ~IsNull(s[a]) /\ ~IsNull(s[b])) =>
            IF info.order_type = "ASCENDING" THEN s[a] <= s[b] ELSE s[a] >= s[b]

\* the NULLs of s are where the bind data asks for them
NullsPlaced(s) ==
    \A a, b \in DOMAIN s :
        (IsNull(s[a]) /\ ~IsNull(s[b])) =>
            IF info.null_order = "NULLS_FIRST" THEN a < b ELSE b < a

Degenerate(row) == ~RowIsValid(row) \/ list_entry(row).length = 0

\* C1: when the invocation is done, every valid list of the output has the
\* length of the input list of its row and holds the same values as often
\* (so no value of another list of the column)
C1_OutputIsPermutation ==
    pc = "done" =>
        \A row \in Rows :
            RowIsValid(row) =>
                /\ WindowWritten(row)
                /\ IsPermutation(InputList(row), OutputList(row))

\* C2: when the invocation is done, the non-null values of every output list
\* are non-decreasing under ASCENDING and non-increasing under DESCENDING,
\* however many buffers the column's elements were sunk in
C2_OutputIsOrdered ==
    pc = "done" =>
        \A row \in Rows :
            RowIsValid(row) =>
                /\ WindowWritten(row)
                /\ IsOrdered(OutputList(row))

\* C3: when the invocation is done, in every output list the NULLs precede the
\* non-null values under NULLS FIRST and follow them under NULLS LAST, and the
\* list holds as many NULLs as the input list of its row
C3_NullsArePlaced ==
    pc = "done" =>
        \A row \in Rows :
            RowIsValid(row) =>
                /\ WindowWritten(row)
                /\ NullsPlaced(OutputList(row))
                /\ Occurrences(OutputList(row), 0) = Occurrences(InputList(row), 0)

\* C5: for a row that is NULL or empty no triple is ever emitted; when the
\* invocation is done the row has the validity, offset and length it had, and
\* the non-empty lists of the column are sorted
C5_DegenerateRowsBypass ==
    \A row \in Rows :
        Degenerate(row) =>
            /\ \A k \in DOMAIN emitted : emitted[k].row # row
            /\ pc = "done" =>
                  /\ result.validity[result.sel[row + 1] + 1] = RowIsValid(row)
                  /\ result.entries[result.sel[row + 1] + 1] = list_entry(row)
                  /\ \A other \in Rows :
                        ~Degenerate(other) =>
                            /\ WindowWritten(other)
                            /\ IsPermutation(InputList(other), OutputList(other))
                            /\ IsOrdered(OutputList(other))
                            /\ NullsPlaced(OutputList(other))

\* C8: the payload emitted for element k of a list with window (offset, length)
\* is offset + k, the element's position in the child storage
C8_PayloadIsChildPosition ==
    \A k \in DOMAIN emitted :
        emitted[k].payload =
            lists.entries[lists.sel[emitted[k].row + 1] + 1].offset
                + emitted[k].child_idx

\* C6: in a column whose rows are all NULL or empty nothing is sunk, the sort,
\* the scan and the gather never run, the child storage is never written, and
\* the result is the input column
C6_DegenerateColumnUntouched ==
    (\A row \in Rows : Degenerate(row)) =>
        /\ local_sort_state = <<>>
        /\ ~data_to_sort
        /\ steps = [sort |-> 0, scan |-> 0, gather |-> 0]
        /\ pc \in {"loop", "reference", "done"}
        /\ child_vector = input_child
        /\ pc = "done" =>
              result = [sel |-> lists.sel, entries |-> lists.entries,
                        validity |-> lists.validity, child |-> input_child]

\* a finished invocation over a column of NULL and empty rows only, whose
\* child storage holds elements of rows the selection left out
C6_Witness ==
    /\ pc = "done"
    /\ count > 0
    /\ \A row \in Rows : Degenerate(row)
    /\ \E row \in Rows : ~RowIsValid(row)
    /\ Len(input_child) > 0

EmittedRows == [k \in DOMAIN emitted |-> [group |-> emitted[k].group,
                                          payload |-> emitted[k].payload]]

KeyPayload(rows) == [k \in DOMAIN rows |-> [group |-> rows[k].group,
                                            payload |-> rows[k].payload]]

\* C9: a chunk sunk inside the loop is full, the one sunk after the loop holds
\* the remainder (1..C rows); the triples emitted are, in their order, the rows
\* sunk followed by the rows still in the buffers, so each is sunk once and
\* none is overwritten; once the scan is drained sel_sorted holds every payload
\* sunk exactly once and sel_sorted_idx = incr_payload_count = the sum of the
\* lengths of the valid lists
C9_EveryTripleSunkAndScannedOnce ==
    /\ \A k \in DOMAIN local_sort_state :
          /\ Len(local_sort_state[k]) \in 1..STANDARD_VECTOR_SIZE
          /\ (pc = "loop" \/ k < Len(local_sort_state)) =>
                Len(local_sort_state[k]) = STANDARD_VECTOR_SIZE
    /\ Len(emitted) = incr_payload_count
    /\ offset_lists_indices \in 0..STANDARD_VECTOR_SIZE
    /\ EmittedRows =
          KeyPayload(Flatten(local_sort_state)) \o
             (IF pc = "loop" THEN KeyPayload(DataChunk(offset_lists_indices))
              ELSE <<>>)
    /\ \A a, b \in DOMAIN emitted : a # b => emitted[a].payload # emitted[b].payload
    /\ (pc \in {"gather", "reference", "done"} /\ data_to_sort) =>
          /\ Len(sel_sorted) = incr_payload_count
          /\ Len(sel_sorted) = Len(Flatten(local_sort_state))
          /\ \A k \in DOMAIN emitted :
                Occurrences(sel_sorted, emitted[k].payload) = 1
          /\ incr_payload_count =
                SumLengths([r \in 1..count |->
                    [length |-> IF RowIsValid(r - 1)
                                THEN list_entry(r - 1).length ELSE 0]])

\* a finished invocation that sank a full chunk inside the loop and a
\* partly filled one after it, and scanned them back in two chunks
C9_Witness ==
    /\ pc = "done"
    /\ Len(local_sort_state) = 2
    /\ Len(local_sort_state[1]) = STANDARD_VECTOR_SIZE
    /\ Len(local_sort_state[2]) < STANDARD_VECTOR_SIZE
    /\ Len(sel_sorted) = incr_payload_count
    /\ steps.scan = 3

(***************************************************************************)
(* Binding: ListNormalSortBind, ListReverseSortBind, GetNullOrder and      *)
(* ListSortBind.  A text is the sequence of its characters.                *)
(***************************************************************************)
\* the letters of the texts below, lower case and upper case
LetterPairs ==
    { <<"a", "A">>, <<"c", "C">>, <<"d", "D">>, <<"e", "E">>, <<"f", "F">>,
      <<"g", "G">>, <<"i", "I">>, <<"l", "L">>, <<"n", "N">>, <<"r", "R">>,
      <<"s", "S">>, <<"t", "T">>, <<"u", "U">> }

\* a faulty variant: the character is left as it is
toupper_Identity(c) == c

\* ::toupper on one character
toupper(c) ==
    IF \E p \in LetterPairs : p[1] = c
    THEN (CHOOSE p \in LetterPairs : p[1] = c)[2]
    ELSE c

\* std::transform(name.begin(), name.end(), name.begin(), ::toupper)
ToUpper(name) == [k \in DOMAIN name |-> toupper(name[k])]

Text_ASC == <<"A", "S", "C">>

Text_DESC == <<"D", "E", "S", "C">>

Text_NULLS_FIRST == <<"N", "U", "L", "L", "S", " ", "F", "I", "R", "S", "T">>

Text_NULLS_LAST == <<"N", "U", "L", "L", "S", " ", "L", "A", "S", "T">>

\* the texts a constant argument evaluates to (Value::ToString)
ArgumentTexts ==
    { Text_ASC, Text_DESC, Text_NULLS_FIRST, Text_NULLS_LAST,
      <<"a", "s", "c">>, <<"A", "s", "c">>, <<"d", "e", "s", "c">>,
      <<"D", "e", "S", "c">>,
      <<"n", "u", "l", "l", "s", " ", "f", "i", "r", "s", "t">>,
      <<"N", "u", "l", "l", "s", " ", "L", "a", "s", "t">>,
      <<"n", "u", "l", "l", "s", " ", "l", "a", "s", "t">>,
      <<>>, <<"N", "U", "L", "L">>, <<"A", "S", "C", " ">>,
      <<"a", "s", "c", "e", "n", "d", "i", "n", "g">>,
      <<"N", "U", "L", "L", "S", "_", "L", "A", "S", "T">>,
      <<"n", "u", "l", "l", "s", "f", "i", "r", "s", "t">> }

ListTypes == {"LIST(INTEGER)", "LIST(VARCHAR)", "SQLNULL"}

\* an argument expression: foldable with the text of its value, or not
\* foldable (a column reference), which has no value at bind time
OptionArguments ==
    { [foldable |-> TRUE, text |-> t, return_type |-> "VARCHAR"] :
        t \in ArgumentTexts }
    \cup { [foldable |-> FALSE, text |-> <<>>, return_type |-> "VARCHAR"] }

ListArguments ==
    { [foldable |-> FALSE, text |-> <<>>, return_type |-> t] : t \in ListTypes }

\* RegisterFunction: the ScalarFunction of a name for n arguments
Registered(function, n) ==
    [arguments |-> [k \in 1..n |-> IF k = 1 THEN "LIST(ANY)" ELSE "VARCHAR"],
     return_type |-> "LIST(ANY)"]

NoBindData == [none |-> TRUE]

NoError == [none |-> TRUE]

InvalidInputException(message) ==
    [type |-> "InvalidInputException", message |-> message]

ChildType(list_type) ==
    IF list_type = "LIST(INTEGER)" THEN "INTEGER" ELSE "VARCHAR"

\* GetNullOrder(arguments, idx): the null order, or the exception thrown
GetNullOrder(arguments, idx) ==
    LET null_order_name == ToUpper(arguments[idx + 1].text)
    IN IF ~arguments[idx + 1].foldable
       THEN [error |-> InvalidInputException(
                          "Null sorting order must be a constant")]
       ELSE IF null_order_name # Text_NULLS_FIRST
                /\ null_order_name # Text_NULLS_LAST
       THEN [error |-> InvalidInputException(
               "Null sorting order must be either NULLS FIRST or NULLS LAST")]
       ELSE IF null_order_name = Text_NULLS_LAST
       THEN [error |-> NoError, null_order |-> "NULLS_LAST"]
       ELSE [error |-> NoError, null_order |-> "NULLS_FIRST"]

\* ListSortBind: the bound function with its types set, and the bind data
ListSortBind(bound_function, arguments, order, null_order) ==
    IF arguments[1].return_type = "SQLNULL"
    THEN [bound_function |->
              [arguments |-> [bound_function.arguments EXCEPT ![1] = "SQLNULL"],
               return_type |-> "SQLNULL"],
          bind_data |-> [kind |-> "VariableReturnBindData",
                         return_type |-> "SQLNULL"]]
    ELSE [bound_function |->
              [arguments |-> [bound_function.arguments EXCEPT
                                 ![1] = arguments[1].return_type],
               return_type |-> arguments[1].return_type],
          bind_data |->
              [kind |-> "ListSortBindData",
               return_type |-> arguments[1].return_type,
               child_type |-> ChildType(arguments[1].return_type)]
              @@ ListSortBindData(order, null_order)]

\* the sorting order of ListNormalSortBind: the default, or the second
\* argument's, or the exception thrown
GetOrder(arguments, default_order_type) ==
    IF Len(arguments) < 2 THEN [error |-> NoError, order |-> default_order_type]
    ELSE LET order_name == ToUpper(arguments[2].text)
         IN IF ~arguments[2].foldable
            THEN [error |-> InvalidInputException(
                               "Sorting order must be a constant")]
            ELSE IF order_name # Text_DESC /\ order_name # Text_ASC
            THEN [error |-> InvalidInputException(
                               "Sorting order must be either ASC or DESC")]
            ELSE IF order_name = Text_DESC
            THEN [error |-> NoError, order |-> "DESCENDING"]
            ELSE [error |-> NoError, order |-> "ASCENDING"]

ReverseOrder(default_order_type) ==
    IF default_order_type = "ASCENDING" THEN "DESCENDING" ELSE "ASCENDING"

BindCalls ==
    { [function |-> "list_sort", arguments |-> a] :
        a \in { <<l>> : l \in ListArguments }
              \cup (ListArguments \X OptionArguments)
              \cup (ListArguments \X OptionArguments \X OptionArguments) }
    \cup
    { [function |-> "list_reverse_sort", arguments |-> a] :
        a \in { <<l>> : l \in ListArguments }
              \cup (ListArguments \X OptionArguments) }

InitBind ==
    /\ IdleSort /\ IdleConc /\ IdleWide
    /\ \E call \in BindCalls : \E o \in OrderTypes : \E n \in NullOrders :
         bind = [pc |-> "call",
                 function |-> call.function,
                 arguments |-> call.arguments,
                 config |-> [default_order_type |-> o, default_null_order |-> n],
                 bound_function |->
                     Registered(call.function, Len(call.arguments)),
                 bind_data |-> NoBindData,
                 error |-> NoError]

Throw(error) ==
    bind' = [bind EXCEPT !.pc = "error", !.error = error]

Return(bound) ==
    bind' = [bind EXCEPT !.pc = "bound",
                         !.bound_function = bound.bound_function,
                         !.bind_data = bound.bind_data]

ListNormalSortBind ==
    /\ bind.pc = "call" /\ bind.function = "list_sort"
    /\ LET arguments == bind.arguments
           order == GetOrder(arguments, bind.config.default_order_type)
           null_order ==
               IF Len(arguments) = 3 THEN GetNullOrder(arguments, 2)
               ELSE [error |-> NoError,
                     null_order |-> bind.config.default_null_order]
       IN IF order.error # NoError THEN Throw(order.error)
          ELSE IF null_order.error # NoError THEN Throw(null_order.error)
          ELSE Return(ListSortBind(bind.bound_function, arguments,
                                   order.order, null_order.null_order))
    /\ UNCHANGED <<sortVars, concVars, wideVars>>

ListReverseSortBind ==
    /\ bind.pc = "call" /\ bind.function = "list_reverse_sort"
    /\ LET arguments == bind.arguments
           order == ReverseOrder(bind.config.default_order_type)
           null_order ==
               IF Len(arguments) = 2 THEN GetNullOrder(arguments, 1)
               ELSE [error |-> NoError,
                     null_order |-> bind.config.default_null_order]
       IN IF null_order.error # NoError THEN Throw(null_order.error)
          ELSE Return(ListSortBind(bind.bound_function, arguments,
                                   order, null_order.null_order))
    /\ UNCHANGED <<sortVars, concVars, wideVars>>

NextBind == ListNormalSortBind \/ ListReverseSortBind

SpecBind == InitBind /\ [][NextBind]_vars

\* two texts are equal up to the case of their letters
SameLetter(c, d) == c = d \/ <<c, d>> \in LetterPairs \/ <<d, c>> \in LetterPairs

EqualsIgnoringCase(s, t) ==
    Len(s) = Len(t) /\ \A k \in DOMAIN s : SameLetter(s[k], t[k])

\* the argument is not a constant, or its text is none of the two tokens
Rejected(argument, token1, token2) ==
    \/ ~argument.foldable
    \/ /\ ~EqualsIgnoringCase(argument.text, token1)
       /\ ~EqualsIgnoringCase(argument.text, token2)

OrderSupplied == bind.function = "list_sort" /\ Len(bind.arguments) >= 2

NullOrderArgument == IF bind.function = "list_sort" THEN 3 ELSE 2

NullOrderSupplied == Len(bind.arguments) = NullOrderArgument

\* C7: a bind call ends in an error exactly when a supplied order is not a
\* constant or not ASC/DESC up to case, or a supplied null order is not a
\* constant or not NULLS FIRST/NULLS LAST up to case; the error is an
\* InvalidInputException, and with it the bound function keeps the argument
\* types and return type it was registered with and no bind data is made
C7_BindErrors ==
    bind.pc \in {"bound", "error"} =>
        /\ bind.pc = "error" <=>
              \/ OrderSupplied /\ Rejected(bind.arguments[2], Text_ASC, Text_DESC)
              \/ NullOrderSupplied /\
                    Rejected(bind.arguments[NullOrderArgument],
                             Text_NULLS_FIRST, Text_NULLS_LAST)
        /\ bind.pc = "error" =>
              /\ bind.error.type = "InvalidInputException"
              /\ bind.bound_function =
                    Registered(bind.function, Len(bind.arguments))
              /\ bind.bind_data = NoBindData
        /\ bind.pc = "bound" => bind.error = NoError /\ bind.bind_data # NoBindData

\* list_sort(l, 'desc', x) for a constant x that is no null order: the order
\* is accepted in lower case and the null order is rejected
C7_Witness ==
    /\ bind.pc = "error"
    /\ bind.function = "list_sort"
    /\ Len(bind.arguments) = 3
    /\ bind.arguments[2].foldable
    /\ bind.arguments[2].text = <<"d", "e", "s", "c">>
    /\ bind.arguments[3].foldable
    /\ bind.error.message =
          "Null sorting order must be either NULLS FIRST or NULLS LAST"

(***************************************************************************)
(* Invocations of ListSortFunction on one bound expression.  They share    *)
(* the ListSortBindData, and with it info.global_sort_state, a unique_ptr: *)
(* assigning it destroys the GlobalSortState it held.  A GlobalSortState   *)
(* is kept by its address; an address is free once its object is           *)
(* destroyed, and a later make_unique may return it again.                 *)
(***************************************************************************)
\* invocations that run at the same time (threads of one pipeline)
MaxInvocations == 2
\* invocations one thread runs one after the other
MaxCalls == 2

Threads == 1..MaxInvocations

Addresses == 1..(MaxInvocations + 1)

\* the payloads thread t sinks in its call number c
PayloadsOf(t, c) == { <<t, c>> }

AllPayloads == UNION { PayloadsOf(t, c) : t \in Threads, c \in 1..MaxCalls }

InitConc ==
    /\ IdleSort /\ IdleBind /\ IdleWide
    /\ heap = [a \in Addresses |->
                  [alive |-> FALSE, owner |-> 0, call |-> 0, rows |-> {}]]
    /\ global_sort_state = 0
    /\ invocations = [t \in Threads |->
                         [pc |-> "idle", call |-> 0, created |-> 0, ref |-> 0,
                          local |-> {}, scanned |-> {}]]

\* the object a reference of an invocation reaches: the live object at the
\* address, or nothing the language defines
Dangling(a) == ~heap[a].alive

\* a call of ListSortFunction starts
Invoke(t) ==
    /\ invocations[t].pc = "idle"
    /\ invocations[t].call < MaxCalls
    /\ invocations' = [invocations EXCEPT
                          ![t] = [pc |-> "create", call |-> @.call + 1,
                                  created |-> 0, ref |-> 0,
                                  local |-> {}, scanned |-> {}]]
    /\ UNCHANGED <<heap, global_sort_state>>
    /\ UNCHANGED <<sortVars, bindVars, wideVars>>

\* info.global_sort_state = make_unique<GlobalSortState>(...): a new object at
\* a free address; the object the pointer held is destroyed
CreateGlobalSortState(t) ==
    /\ invocations[t].pc = "create"
    /\ \E a \in Addresses :
         /\ ~heap[a].alive
         /\ heap' = [b \in Addresses |->
                        IF b = a
                        THEN [alive |-> TRUE, owner |-> t,
                              call |-> invocations[t].call, rows |-> {}]
                        ELSE IF b = global_sort_state
                        THEN [heap[b] EXCEPT !.alive = FALSE]
                        ELSE heap[b]]
         /\ global_sort_state' = a
         /\ invocations' = [invocations EXCEPT ![t].pc = "reference",
                                               ![t].created = a]
    /\ UNCHANGED <<sortVars, bindVars, wideVars>>

\* auto &global_sort_state = *info.global_sort_state: the object the shared
\* pointer holds now
TakeReference(t) ==
    /\ invocations[t].pc = "reference"
    /\ invocations' = [invocations EXCEPT ![t].pc = "sink",
                                          ![t].ref = global_sort_state]
    /\ UNCHANGED <<heap, global_sort_state>>
    /\ UNCHANGED <<sortVars, bindVars, wideVars>>

\* the loop over the rows: the chunks are sunk in the invocation's own
\* LocalSortState
SinkLocal(t) ==
    /\ invocations[t].pc = "sink"
    /\ invocations' = [invocations EXCEPT
                          ![t].pc = "add",
                          ![t].local = PayloadsOf(t, invocations[t].call)]
    /\ UNCHANGED <<heap, global_sort_state>>
    /\ UNCHANGED <<sortVars, bindVars, wideVars>>

\* global_sort_state.AddLocalState and PrepareMergePhase through the
\* reference.  Through a dangling reference the behaviour is undefined: the
\* rows land in the freed memory or are lost, or the invocation crashes
AddLocalState(t) ==
    /\ invocations[t].pc = "add"
    /\ LET a == invocations[t].ref
           added == [heap EXCEPT ![a].rows = @ \cup invocations[t].local]
       IN IF ~Dangling(a)
          THEN /\ heap' = added
               /\ invocations' = [invocations EXCEPT ![t].pc = "scan"]
          ELSE \/ /\ heap' \in {added, heap}
                  /\ invocations' = [invocations EXCEPT ![t].pc = "scan"]
               \/ /\ heap' = heap
                  /\ invocations' = [invocations EXCEPT ![t].pc = "crashed"]
    /\ UNCHANGED global_sort_state
    /\ UNCHANGED <<sortVars, bindVars, wideVars>>

\* the PayloadScanner over the sorted block of the referenced state, drained.
\* Through a dangling reference the behaviour is undefined: any payloads are
\* read, or the invocation crashes
ScanPayloads(t) ==
    /\ invocations[t].pc = "scan"
    /\ LET a == invocations[t].ref
       IN IF ~Dangling(a)
          THEN invocations' = [invocations EXCEPT ![t].pc = "done",
                                                ![t].scanned = heap[a].rows]
          ELSE \/ \E any \in SUBSET AllPayloads :
                     invocations' = [invocations EXCEPT ![t].pc = "done",
                                                        ![t].scanned = any]
               \/ invocations' = [invocations EXCEPT ![t].pc = "crashed"]
    /\ UNCHANGED <<heap, global_sort_state>>
    /\ UNCHANGED <<sortVars, bindVars, wideVars>>

\* result.Reference(lists) and the return: the GlobalSortState stays in the
\* bind data
ReturnFromCall(t) ==
    /\ invocations[t].pc = "done"
    /\ invocations' = [invocations EXCEPT ![t].pc = "idle"]
    /\ UNCHANGED <<heap, global_sort_state>>
    /\ UNCHANGED <<sortVars, bindVars, wideVars>>

NextConc ==
    \E t \in Threads :
        \/ Invoke(t)
        \/ CreateGlobalSortState(t)
        \/ TakeReference(t)
        \/ SinkLocal(t)
        \/ AddLocalState(t)
        \/ ScanPayloads(t)
        \/ ReturnFromCall(t)

SpecConc == InitConc /\ [][NextConc]_vars

\* C10: while an invocation sinks, merges and scans, the GlobalSortState it
\* uses is the one it created, and that state is alive (not replaced or
\* destroyed by another invocation); an invocation that is done has scanned
\* exactly the payloads it sank
C10_StateIsPrivateToInvocation ==
    \A t \in Threads :
        /\ invocations[t].pc \in {"sink", "add", "scan"} =>
              /\ invocations[t].ref = invocations[t].created
              /\ heap[invocations[t].ref].alive
              /\ heap[invocations[t].ref].owner = t
              /\ heap[invocations[t].ref].call = invocations[t].call
        /\ invocations[t].pc # "crashed"
        /\ invocations[t].pc = "done" =>
              invocations[t].scanned = invocations[t].local

(***************************************************************************)
(* The walk over a wide column: count rows, each a valid list of one       *)
(* element.  For such a column the loop records one lists_indices entry    *)
(* per row, in the order of the rows, whatever the buffer it is sunk in;   *)
(* ListSortFunction has no branch that reports a row count as too large.   *)
(***************************************************************************)
\* the row counts tried lie this far on either side of USMALLINT_RANGE
WideMargin == 50

WideCounts == (USMALLINT_RANGE - WideMargin)..(USMALLINT_RANGE + WideMargin)

InitWide ==
    /\ IdleSort /\ IdleBind /\ IdleConc
    /\ \E n \in WideCounts :
         wide = [pc |-> "loop", count |-> n, lists_indices |-> <<>>,
                 capacity_error |-> FALSE]

\* the loop over all rows of the column: row r stores GroupIndex(r) for its
\* element
WalkWideColumn ==
    /\ wide.pc = "loop"
    /\ wide' = [wide EXCEPT
                   !.pc = "sunk",
                   !.lists_indices = [r \in 1..wide.count |-> GroupIndex(r - 1)]]
    /\ UNCHANGED <<sortVars, bindVars, concVars>>

NextWide == WalkWideColumn

SpecWide == InitWide /\ [][NextWide]_vars

====
